---- MODULE Spec2Model ----
(***************************************************************************)
(* A model of nemo/collections/tts/fasterspeech_modules.py: the tensor     *)
(* helpers of _Ops, the example loader and batch collator of               *)
(* FasterSpeechDataLayer, SuperSmartSampler, FasterSpeechDurLoss and       *)
(* FasterSpeechMelLoss.                                                    *)
(*                                                                         *)
(* A 1-D tensor is a sequence, a 2-D tensor a sequence of rows.  Python    *)
(* index k is position k + 1 here.  An operation that can raise returns a  *)
(* record [err, v]: err is "" and v the value, or err names the exception. *)
(***************************************************************************)
EXTENDS Integers, Sequences, FiniteSets, TLC

VARIABLES self, ret

vars == <<self, ret>>

\* ------------------------------------------------------------------ bounds

\* Longest token sequence of an example.
MaxTok == 2
\* Longest operand of the stand-alone calls of _Ops.
MaxLen == 3
\* Largest length given to make_mask.
MaxMaskLen == 5
\* Largest num_classes of the grid of duration losses.
MaxClasses == 3
\* Largest max_dur of the grid of duration losses.
MaxMaxDur == 5
\* Largest of the small true durations given to the duration loss.
MaxTrue == 4
\* Largest mel length and mask length given to the mel loss.
MaxMel == 2
\* Size of the dataset the sampler draws from.
MaxData == 3
\* Largest batch_size of a sampler.
MaxBatchSize == 3
\* Last epoch set on a sampler.
MaxEpoch == 1

\* ------------------------------------------------------------- vocabulary

\* labels = [' ', 'a', 'b']: labels.index(' ') is 0, the tokens are 1 and 2.
SpaceId == 0
Tokens == {1, 2}
\* pad_id and blank_id as the data layer is configured: two ids off the labels.
PadId == 3
BlankId == 4
\* The durations an annotation holds: a skipped unit and a two-frame unit.
DurValues == {0, 2}

\* ---------------------------------------------------------------- helpers

Ok(v) == [err |-> "", v |-> v]
Fail(kind) == [err |-> kind, v |-> <<>>]

SeqsUpTo(S, n) == UNION {[1..k -> S] : k \in 0..n}
SeqsOfLen(S, n) == [1..n -> S]

MaxOf(S) == CHOOSE m \in S : \A x \in S : x <= m

RECURSIVE SumSeq(_)
SumSeq(s) == IF Len(s) = 0 THEN 0 ELSE Head(s) + SumSeq(Tail(s))

RECURSIVE Concat(_)
Concat(ss) == IF Len(ss) = 0 THEN <<>> ELSE Head(ss) \o Concat(Tail(ss))

\* Tensor.shape of a stacked 2-D tensor with at least one row.
Shape(t) == <<Len(t), Len(t[1])>>

\* Tensor.to(dtype) on one element: bool is "non-zero", long and float keep
\* the integers the model holds.
Cast(x, dtype) == IF dtype = "bool" THEN x # 0 ELSE x

\* Tensor.sum(-1) of one row of a long tensor.
RowSum(row) == SumSeq(row)

\* Tensor.sum(-1) of one row of a bool tensor: True counts as 1.
MaskSum(row) == SumSeq([j \in 1..Len(row) |-> IF row[j] THEN 1 ELSE 0])

\* ------------------------------------------------------------------- _Ops

\* F.pad(tensor, pad=[left, right], value=value) on a 1-D tensor.
FPad(tensor, left, right, value) ==
    [j \in 1..left |-> value] \o tensor \o [j \in 1..right |-> value]

\* _Ops.merge: right-pad every tensor to the longest, stack, cast.
\* max() of an empty list raises ValueError.
merge(tensors, value, dtype) ==
    IF Len(tensors) = 0 THEN Fail("ValueError")
    ELSE LET max_len == MaxOf({Len(tensors[i]) : i \in 1..Len(tensors)})
             padded(i) == FPad(tensors[i], 0, max_len - Len(tensors[i]), value)
         IN Ok([i \in 1..Len(tensors) |->
                  [j \in 1..max_len |-> Cast(padded(i)[j], dtype)]])

\* torch.ones(length).
Ones(length) == [j \in 1..length |-> 1]

\* A mask whose padding is cast from a non-zero fill.
make_mask_fill_one(lengths) ==
    merge([i \in 1..Len(lengths) |-> Ones(lengths[i])], 1, "bool")

\* _Ops.make_mask: merge of all-ones vectors, padded with 0, as bool.
make_mask(lengths) ==
    merge([i \in 1..Len(lengths) |-> Ones(lengths[i])], 0, "bool")

\* An interleave that stacks y before x[:-1].
interleave_y_first(x, y) ==
    LET xinit == IF Len(x) = 0 THEN <<>> ELSE SubSeq(x, 1, Len(x) - 1)
    IN IF Len(xinit) # Len(y) THEN Fail("RuntimeError")
       ELSE IF Len(x) = 0 THEN Fail("IndexError")
       ELSE Ok(FPad(Concat([k \in 1..Len(y) |-> <<y[k], xinit[k]>>]), 0, 1, x[Len(x)]))

\* _Ops.interleave: stack x[:-1] and y along dim 1, flatten, append x[-1].
\* torch.stack raises RuntimeError on tensors of different sizes; x[-1] of an
\* empty tensor raises IndexError (after the stack, which is evaluated first).
interleave(x, y) ==
    LET xinit == IF Len(x) = 0 THEN <<>> ELSE SubSeq(x, 1, Len(x) - 1)
    IN IF Len(xinit) # Len(y) THEN Fail("RuntimeError")
       ELSE IF Len(x) = 0 THEN Fail("IndexError")
       ELSE LET stacked == [k \in 1..Len(y) |-> <<xinit[k], y[k]>>]
                xy == Concat(stacked)
            IN Ok(FPad(xy, 0, 1, x[Len(x)]))

\* torch.repeat_interleave(input, repeats) on 1-D tensors: repeats of size 1
\* is broadcast, any other size must be the input's.
repeat_interleave(input, repeats) ==
    IF Len(repeats) = Len(input)
    THEN Ok(Concat([j \in 1..Len(input) |-> [k \in 1..repeats[j] |-> input[j]]]))
    ELSE IF Len(repeats) = 1
    THEN Ok(Concat([j \in 1..Len(input) |-> [k \in 1..repeats[1] |-> input[j]]]))
    ELSE Fail("RuntimeError")

\* ---------------------------------------------------- FasterSpeechDataset

\* What the audio dataset yields for one index: the waveform (its samples do
\* not matter here, only their number), its length, the token ids and their
\* count.  With load_audio off the waveform and its length are None, shown
\* as an empty waveform of length 0.
AudioExample(load_audio, n_samples, text) ==
    [audio |-> IF load_audio THEN [j \in 1..n_samples |-> 0] ELSE <<>>,
     audio_len |-> IF load_audio THEN n_samples ELSE 0,
     text |-> text,
     text_len |-> Len(text)]

\* FasterSpeechDataset.__getitem__: the audio example joined with its
\* duration record, a sequence under 'pad' and a pair <<blank, dur>> under
\* 'full-pad'.  Speaker tables are not configured (speaker_table=None).
getitem(durs_type, base, record) ==
    IF durs_type = "pad"
    THEN Ok([audio |-> base.audio, audio_len |-> base.audio_len,
             text |-> base.text, text_len |-> base.text_len,
             dur |-> record, blank |-> <<>>])
    ELSE IF durs_type = "full-pad"
    THEN Ok([audio |-> base.audio, audio_len |-> base.audio_len,
             text |-> base.text, text_len |-> base.text_len,
             dur |-> record[2], blank |-> record[1]])
    ELSE Fail("ValueError")

\* ------------------------------------------- FasterSpeechDataLayer._collate

CollateFail(kind) ==
    [err |-> kind, audio |-> <<>>, audio_len |-> <<>>, text |-> <<>>,
     text_mask |-> <<>>, dur |-> <<>>, text_rep |-> <<>>, text_rep_mask |-> <<>>]

\* The first error of a sequence of results, "" when there is none.
FirstErr(rs) ==
    IF \A i \in 1..Len(rs) : rs[i].err = "" THEN ""
    ELSE rs[CHOOSE i \in 1..Len(rs) :
              rs[i].err # "" /\ \A k \in 1..(i - 1) : rs[k].err = ""].err

Values(rs) == [i \in 1..Len(rs) |-> rs[i].v]

\* Line 238: one space id before and one after the tokens.
pad_text(text) == FPad(text, 1, 1, SpaceId)

\* A mask that forgets the two space ids.
pad_mask_len_unpadded(text_len) == text_len

\* Line 241: the mask length of an example under 'pad'.
pad_mask_len(text_len) == text_len + 2

\* Line 246: torch.empty(len(text) + 1).fill_(blank_id).
blank_row(text) == [j \in 1..(Len(text) + 1) |-> BlankId]

\* Line 253: the mask length of an example under 'full-pad'.
full_pad_mask_len(text_len) == text_len * 2 + 1

\* dur padded like text, with the pad id.
dur_fill_pad_id == PadId

\* Lines 242 and 257: dur is merged with the default fill value of merge.
dur_fill == 0

CollateTextFail(kind) ==
    [err |-> kind, text |-> <<>>, text_mask |-> <<>>, dur |-> <<>>]

\* Lines 237-259: text, text_mask and dur under the configured scheme, as
\* [err, text, text_mask, dur].
collate_text(durs_type, batch) ==
    LET B == Len(batch) IN
    IF durs_type = "pad"
    THEN [err |-> "",
          text |-> merge([i \in 1..B |-> pad_text(batch[i].text)], PadId, "long").v,
          text_mask |-> make_mask([i \in 1..B |-> pad_mask_len(batch[i].text_len)]).v,
          dur |-> merge([i \in 1..B |-> batch[i].dur], dur_fill, "long").v]
    ELSE IF durs_type = "full-pad"
    THEN LET texts == [i \in 1..B |-> interleave(blank_row(batch[i].text), batch[i].text)]
             durs == [i \in 1..B |-> interleave(batch[i].blank, batch[i].dur)]
         IN IF FirstErr(texts) # "" THEN CollateTextFail(FirstErr(texts))
            ELSE IF FirstErr(durs) # "" THEN CollateTextFail(FirstErr(durs))
            ELSE [err |-> "",
                  text |-> merge(Values(texts), PadId, "long").v,
                  text_mask |-> make_mask([i \in 1..B |->
                                             full_pad_mask_len(batch[i].text_len)]).v,
                  dur |-> merge(Values(durs), dur_fill, "long").v]
    ELSE CollateTextFail("ValueError")

\* FasterSpeechDataLayer._collate.  batch[0] of an empty batch raises
\* IndexError; the asserts raise AssertionError.
collate(durs_type, load_audio, batch) ==
    IF Len(batch) = 0 THEN CollateFail("IndexError")
    ELSE
    LET B == Len(batch)
        audio == IF load_audio
                 THEN merge([i \in 1..B |-> batch[i].audio], 0, "float").v
                 ELSE <<>>
        audio_len == IF load_audio THEN [i \in 1..B |-> batch[i].audio_len] ELSE <<>>
        t == collate_text(durs_type, batch)
    IN IF t.err # "" THEN CollateFail(t.err)
       ELSE
       LET reps == [i \in 1..B |-> repeat_interleave(t.text[i], t.dur[i])]
       IN IF FirstErr(reps) # "" THEN CollateFail(FirstErr(reps))
          ELSE
          LET text_rep == merge(Values(reps), 0, "long").v
              text_rep_mask == make_mask([i \in 1..B |-> RowSum(t.dur[i])]).v
          IN IF load_audio /\ Len(audio[1]) # MaxOf({audio_len[i] : i \in 1..B})
             THEN CollateFail("AssertionError")
             ELSE IF Shape(t.text) # Shape(t.text_mask)
             THEN CollateFail("AssertionError")
             ELSE IF Shape(t.text) # Shape(t.dur)
             THEN CollateFail("AssertionError")
             ELSE [err |-> "", audio |-> audio, audio_len |-> audio_len,
                   text |-> t.text, text_mask |-> t.text_mask, dur |-> t.dur,
                   text_rep |-> text_rep, text_rep_mask |-> text_rep_mask]

\* ------------------------------------------------------ FasterSpeechDurLoss

Methods == {"l2-log", "l2", "dmld-log", "dmld", "xe", "xe-steps", "l1", "l2-sq"}
Reductions == {"all", "batch", "mean"}

\* str.startswith('l2') on the method names above.
StartsWithL2(method) == method \in {"l2-log", "l2", "l2-sq"}

\* Lines 392-396: the loop of the boundary table.  k and c are floats; with
\* a growth coefficient p / q they are the fractions knum / den and
\* cnum / den, exactly (p / q is taken dyadic, so the floats are exact too).
\* int(c) truncates, and c is not negative.
RECURSIVE xe_steps_loop(_, _, _, _, _, _, _)
xe_steps_loop(classes, knum, cnum, den, max_dur, p, q) ==
    IF cnum < max_dur * den
    THEN LET k2 == knum * p
             den2 == den * q
             c2 == cnum * q + k2
         IN xe_steps_loop(Append(classes, c2 \div den2), k2, c2, den2, max_dur, p, q)
    ELSE classes

\* A table whose running boundary starts at 0, not at num_classes - 1.
xe_steps_classes_from_zero(num_classes, max_dur, coef) ==
    xe_steps_loop([i \in 1..num_classes |-> i - 1], 1, 0, 1, max_dur, coef[1], coef[2])

\* Lines 391-397: np.arange(num_classes), then the loop from k = 1,
\* c = num_classes - 1.
xe_steps_classes(num_classes, max_dur, coef) ==
    xe_steps_loop([i \in 1..num_classes |-> i - 1], 1, num_classes - 1, 1,
                  max_dur, coef[1], coef[2])

\* Lines 385-397: the attributes __init__ sets.
DurLossAttrs ==
    {"_method", "_num_classes", "_dmld_hidden", "_reduction", "_xe_steps_classes"}

\* FasterSpeechDurLoss.__init__.
DurLoss(method, num_classes, dmld_hidden, reduction, max_dur, coef) ==
    [class |-> "FasterSpeechDurLoss", attrs |-> DurLossAttrs, method |-> method,
     num_classes |-> num_classes, dmld_hidden |-> dmld_hidden,
     reduction |-> reduction,
     classes |-> xe_steps_classes(num_classes, max_dur, coef)]

Abs(x) == IF x < 0 THEN 0 - x ELSE x
MinOf(S) == CHOOSE m \in S : \A x \in S : m <= x

\* Tensor.argmin(-1) and Tensor.argmax(-1) of one vector, as Python indices:
\* which of several extreme positions is returned is not fixed.
ArgMins(v) == {k \in 0..(Len(v) - 1) : v[k + 1] = MinOf({v[j] : j \in 1..Len(v)})}
ArgMaxs(v) == {k \in 0..(Len(v) - 1) : v[k + 1] = MaxOf({v[j] : j \in 1..Len(v)})}

\* torch.clamp(x, max=hi).
ClampMax(x, hi) == IF x > hi THEN hi ELSE x

\* Targets clamped to num_classes, one past the last class.
xe_targets_clamp_late(o, d) ==
    IF o.method = "xe" THEN {ClampMax(d, o.num_classes)}
    ELSE ArgMins([k \in 1..Len(o.classes) |-> Abs(d - o.classes[k])])

\* Lines 429 and 434-437: the class a true duration is trained on; the set
\* of the classes argmin may return under 'xe-steps'.
xe_targets(o, d) ==
    IF o.method = "xe" THEN {ClampMax(d, o.num_classes - 1)}
    ELSE ArgMins([k \in 1..Len(o.classes) |-> Abs(d - o.classes[k])])

\* FasterSpeechDurLoss._loss_function on one position: dur_true is d, D is
\* dur_pred.shape[-1], target the class drawn from xe_targets (read by the
\* two cross-entropy methods only).  The loss value is a float the model
\* does not compute; F.cross_entropy raises IndexError on a target that is
\* no class of its input.
loss_function(o, d, D, target) ==
    IF StartsWithL2(o.method) /\ D # 1 THEN Fail("ValueError")
    ELSE IF o.method \notin {"l2-log", "l2", "dmld-log", "dmld", "xe", "xe-steps"}
    THEN Fail("ValueError")
    ELSE IF o.method \in {"xe", "xe-steps"} /\ target >= D THEN Fail("IndexError")
    ELSE IF o.reduction \notin {"all", "batch"} THEN Fail("ValueError")
    ELSE Ok("loss")

\* FasterSpeechDurLoss.d_out.  self._args is no attribute of the object.
d_out(o) ==
    IF o.method = "l2-log" THEN Ok(1)
    ELSE IF o.method = "l2" THEN Ok(1)
    ELSE IF o.method \in {"dmld-log", "dmld"}
    THEN IF "_args" \in o.attrs THEN Ok(3 * o.dmld_hidden) ELSE Fail("AttributeError")
    ELSE IF o.method = "xe" THEN Ok(o.num_classes)
    ELSE IF o.method = "xe-steps" THEN Ok(Len(o.classes))
    ELSE Fail("ValueError")

\* exp(x) in thousandths, for the raw outputs the model draws.
ExpMilli(x) == IF x = 0 - 1 THEN 368 ELSE IF x = 0 THEN 1000 ELSE 2718

\* Lines 499-500 on the fraction num / den: negative values become 0, then
\* round() (halves go to the even neighbour) and long().
clamp_round(num, den) ==
    IF num < 0 THEN 0
    ELSE LET q == num \div den
             r == num % den
         IN IF 2 * r < den THEN q
            ELSE IF 2 * r > den THEN q + 1
            ELSE IF q % 2 = 0 THEN q ELSE q + 1

\* FasterSpeechDurLoss.preprocessing on one position.  x is the raw output
\* of the regression methods or the value dmld_sample draws in [-1, 1];
\* index is the class argmax returns.  self._loss_dmld_num_classes is no
\* attribute of the object.
preprocessing(o, x, index) ==
    IF o.method = "l2-log" THEN Ok(clamp_round(ExpMilli(x) - 1000, 1000))
    ELSE IF o.method = "l2" THEN Ok(clamp_round(x, 1))
    ELSE IF o.method = "dmld-log"
    THEN IF "_loss_dmld_num_classes" \in o.attrs THEN Ok(0) ELSE Fail("AttributeError")
    ELSE IF o.method = "dmld" THEN Ok(clamp_round((x + 1) * (o.num_classes - 1), 2))
    ELSE IF o.method = "xe" THEN Ok(clamp_round(index, 1))
    ELSE IF o.method = "xe-steps"
    THEN IF index < Len(o.classes) THEN Ok(clamp_round(o.classes[index + 1], 1))
         ELSE Fail("RuntimeError")
    ELSE Fail("ValueError")

\* ------------------------------------------------------ FasterSpeechMelLoss

LengthError == "ValueError: Wrong mel length calculation."
ReductionError == "ValueError: Wrong reduction."

\* FasterSpeechMelLoss.__init__.
MelLoss(reduction) == [class |-> "FasterSpeechMelLoss", reduction |-> reduction]

\* torch.equal on 1-D tensors: same size, same elements.
TorchEqual(a, b) == Len(a) = Len(b) /\ \A i \in 1..Len(a) : a[i] = b[i]

\* A length check that compares mel_len with the duration sums only.
mel_loss_function_dur_only(o, mel_len, dur_true, text_rep_mask) ==
    IF ~TorchEqual(mel_len, [i \in 1..Len(dur_true) |-> RowSum(dur_true[i])])
    THEN Fail(LengthError)
    ELSE IF o.reduction \notin {"all", "batch"} THEN Fail(ReductionError)
    ELSE Ok("loss")

\* FasterSpeechMelLoss._loss_function: the length check, then the masked
\* mean-squared error (a float the model does not compute), then the
\* reduction.
mel_loss_function(o, mel_len, dur_true, text_rep_mask) ==
    IF \/ ~TorchEqual(mel_len, [i \in 1..Len(dur_true) |-> RowSum(dur_true[i])])
       \/ ~TorchEqual(mel_len, [i \in 1..Len(text_rep_mask) |-> MaskSum(text_rep_mask[i])])
    THEN Fail(LengthError)
    ELSE IF o.reduction \notin {"all", "batch"} THEN Fail(ReductionError)
    ELSE Ok("loss")

\* -------------------------------------------------------- SuperSmartSampler

\* SuperSmartSampler.__init__: lengths[i] is the length of dataset item i
\* (Python index i, position i + 1); epoch is DistributedSampler's.
Sampler(lengths, batch_size) ==
    [class |-> "SuperSmartSampler", lengths |-> lengths, batch_size |-> batch_size,
     epoch |-> 0]

\* list.sort(key=...): a stable sort, here by insertion from the left.
RECURSIVE InsertByKey(_, _, _)
InsertByKey(sorted, i, lengths) ==
    IF Len(sorted) = 0 THEN <<i>>
    ELSE IF lengths[i + 1] < lengths[Head(sorted) + 1] THEN <<i>> \o sorted
    ELSE <<Head(sorted)>> \o InsertByKey(Tail(sorted), i, lengths)

RECURSIVE sort_by_length(_, _)
sort_by_length(indices, lengths) ==
    IF Len(indices) = 0 THEN <<>>
    ELSE InsertByKey(sort_by_length(SubSeq(indices, 1, Len(indices) - 1), lengths),
                     indices[Len(indices)], lengths)

Min2(a, b) == IF a < b THEN a ELSE b

\* range(0, len(indices), batch_size), as the number of its values.
NumBatches(n, batch_size) == (n + batch_size - 1) \div batch_size

\* Lines 118-120: indices[i : i + batch_size] for each i of the range.
make_batches(indices, batch_size) ==
    [j \in 1..NumBatches(Len(indices), batch_size) |->
        SubSeq(indices, (j - 1) * batch_size + 1, Min2(j * batch_size, Len(indices)))]

\* The permutations torch.randperm(n) can return, as Python indices.
RandPerms(n) ==
    {f \in [1..n -> 0..(n - 1)] : \A a, b \in 1..n : a # b => f[a] # f[b]}

\* An iteration that yields the full batches only.
sampler_iter_drop_short(o, indices, b_indices) ==
    LET batches == make_batches(sort_by_length(indices, o.lengths), o.batch_size)
    IN Concat([j \in 1..Len(b_indices) |->
                 IF Len(batches[b_indices[j] + 1]) = o.batch_size
                 THEN batches[b_indices[j] + 1] ELSE <<>>])

\* SuperSmartSampler.__iter__ on the indices super().__iter__() hands over;
\* b_indices is the permutation the epoch-seeded generator gives.
sampler_iter(o, indices, b_indices) ==
    LET batches == make_batches(sort_by_length(indices, o.lengths), o.batch_size)
    IN Concat([j \in 1..Len(b_indices) |-> batches[b_indices[j] + 1]])

\* The DataLoader of lines 218-226 over a sampler: it cuts what the sampler
\* yields into consecutive groups of batch_size, the last one shorter when
\* the count is no multiple, and left out under drop_last.
loader_batches(out, batch_size, drop_last) ==
    LET all == make_batches(out, batch_size)
        full == Len(out) \div batch_size
    IN IF drop_last THEN SubSeq(all, 1, full) ELSE all

\* ------------------------------------------- FasterSpeechDataLayer.__init__

DursTypes == {"pad", "full-pad", "ctc"}
SamplerTypes == {"default", "super-smart", "bucket"}
\* nemo.core.DeviceType of the factory the module is built under.
Placements == {"CPU", "GPU", "AllGpu"}

NoObj == [class |-> "none"]
NoRet == [op |-> "none"]

\* Lines 205-216: the sampler handed to the DataLoader.  sampler_type is
\* looked at under AllGpu only.
choose_sampler(placement, sampler_type) ==
    IF placement = "AllGpu"
    THEN IF sampler_type = "default" THEN Ok("DistributedSampler")
         ELSE IF sampler_type = "super-smart" THEN Ok("SuperSmartSampler")
         ELSE Fail("ValueError")
    ELSE Ok("None")

\* Lines 197-203: the fields __getitem__ and _collate read.
DataLayer(durs_type, load_audio) ==
    [class |-> "FasterSpeechDataLayer", durs_type |-> durs_type,
     load_audio |-> load_audio]

\* ------------------------------------------------------------ input domains

\* The transcripts "", "a", "ab", "aba", ...: the collator only moves token
\* ids, so one text per length, with neighbours that differ, is drawn.
Texts == {[j \in 1..n |-> IF j % 2 = 1 THEN 1 ELSE 2] : n \in 0..MaxTok}
BatchLens == {0, 1, 2}

\* The duration records a file can hold for a text of n tokens under 'pad':
\* one duration per token, or one per position of the space-padded text.
PadRecords(n) == SeqsOfLen(DurValues, n) \cup SeqsOfLen(DurValues, n + 2)

\* Under 'full-pad': n + 1 blank durations and n token durations.
FullPadRecords(n) == SeqsOfLen(DurValues, n + 1) \X SeqsOfLen(DurValues, n)

Records(durs_type, n) ==
    IF durs_type = "full-pad" THEN FullPadRecords(n) ELSE PadRecords(n)

\* One audio example per text: the longer the text, the longer the waveform.
Bases(load_audio) == {AudioExample(load_audio, Len(text) + 1, text) : text \in Texts}

\* The examples a dataset of the given scheme returns.
Examples(durs_type, load_audio) ==
    UNION {{getitem(durs_type, base, record).v :
               record \in Records(durs_type, base.text_len)} :
           base \in Bases(load_audio)}

\* The batches collate_fn is given.  A dataset of an unknown scheme returns
\* no example (its __getitem__ raises): a direct call of _collate on such a
\* layer is given one example made for 'pad'.
Batches(durs_type, load_audio) ==
    IF durs_type \in {"pad", "full-pad"}
    THEN UNION {SeqsOfLen(Examples(durs_type, load_audio), b) : b \in BatchLens}
    ELSE SeqsOfLen(Examples("pad", load_audio), 1)

\* ------------------------------------------------------ data layer actions

NewDataLayer ==
    /\ self = NoObj
    /\ ret = NoRet
    /\ \E durs_type \in DursTypes, load_audio \in BOOLEAN,
          placement \in Placements, sampler_type \in SamplerTypes :
          LET r == choose_sampler(placement, sampler_type)
          IN /\ self' = IF r.err = "" THEN DataLayer(durs_type, load_audio) ELSE NoObj
             /\ ret' = [op |-> "FasterSpeechDataLayer.__init__", err |-> r.err,
                        placement |-> placement, sampler_type |-> sampler_type,
                        sampler |-> r.v]

\* Lines 284-286: the trainer takes the loader, which then fetches examples
\* and collates them.
DataIterator ==
    /\ self.class = "FasterSpeechDataLayer"
    /\ ret.op = "FasterSpeechDataLayer.__init__"
    /\ ret' = [op |-> "data_iterator"]
    /\ UNCHANGED self

\* The loader fetches one example: the first use of the dataset.
GetItem ==
    /\ self.class = "FasterSpeechDataLayer"
    /\ ret.op = "data_iterator"
    /\ \E base \in Bases(self.load_audio) :
          \E record \in Records(self.durs_type, base.text_len) :
             LET r == getitem(self.durs_type, base, record)
             IN /\ ret' = [op |-> "__getitem__", err |-> r.err, base |-> base,
                           record |-> record, example |-> r.v]
                /\ UNCHANGED self

\* The loader hands a batch of fetched examples to collate_fn.
Collate ==
    /\ self.class = "FasterSpeechDataLayer"
    /\ ret.op = "data_iterator"
    /\ \E batch \in Batches(self.durs_type, self.load_audio) :
          /\ ret' = [op |-> "_collate", batch |-> batch,
                     out |-> collate(self.durs_type, self.load_audio, batch)]
          /\ UNCHANGED self

\* ------------------------------------------------------------ _Ops actions

OpsValues == {0, 1}

CallMakeMask ==
    /\ self = NoObj
    /\ ret = NoRet
    /\ \E lengths \in SeqsUpTo(0..MaxMaskLen, MaxLen) :
          /\ ret' = [op |-> "make_mask", lengths |-> lengths, out |-> make_mask(lengths)]
          /\ UNCHANGED self

CallInterleave ==
    /\ self = NoObj
    /\ ret = NoRet
    /\ \E x \in SeqsUpTo(OpsValues, MaxLen + 1), y \in SeqsUpTo(OpsValues, MaxLen) :
          /\ ret' = [op |-> "interleave", x |-> x, y |-> y, out |-> interleave(x, y)]
          /\ UNCHANGED self

\* --------------------------------------------------------- DurLoss actions

\* The growth coefficients 1.5, 2 and 1.25, as fractions.
Coefs == {<<3, 2>>, <<2, 1>>, <<5, 4>>}
DmldHiddens == {5}

\* (num_classes, max_dur, xe_steps_coef): a grid of small tables, and the
\* defaults 32, 500, 1.5.
TableParams ==
    ((1..MaxClasses) \X (0..MaxMaxDur) \X Coefs) \cup {<<32, 500, <<3, 2>>>>}

\* The width the network is built with: d_out as the method table gives it.
Width(o) ==
    IF o.method = "xe" THEN o.num_classes
    ELSE IF o.method = "xe-steps" THEN Len(o.classes)
    ELSE IF o.method \in {"dmld-log", "dmld"} THEN 3 * o.dmld_hidden
    ELSE 1

\* The true durations of a position: the small ones, every boundary of the
\* table and one past the last.
DurTrues(o) ==
    (0..MaxTrue) \cup {o.classes[k] : k \in 1..Len(o.classes)}
                 \cup {o.classes[Len(o.classes)] + 1}

OneHot(D, c) == [j \in 1..D |-> IF j = c + 1 THEN 1 ELSE 0]

NewDurLoss ==
    /\ self = NoObj
    /\ ret = NoRet
    /\ \E method \in Methods, reduction \in Reductions, hidden \in DmldHiddens,
          t \in TableParams :
          /\ self' = DurLoss(method, t[1], hidden, reduction, t[2], t[3])
          /\ ret' = [op |-> "FasterSpeechDurLoss.__init__", err |-> "",
                     num_classes |-> t[1], max_dur |-> t[2], coef |-> t[3]]

DurLossCall ==
    /\ self.class = "FasterSpeechDurLoss"
    /\ ret.op = "FasterSpeechDurLoss.__init__"
    /\ \E d \in DurTrues(self), D \in {1, Width(self)} :
          \E target \in xe_targets(self, d) :
             LET r == loss_function(self, d, D, target)
             IN /\ ret' = [op |-> "_loss_function", err |-> r.err, dur_true |-> d,
                           D |-> D, target |-> target]
                /\ UNCHANGED self

DOut ==
    /\ self.class = "FasterSpeechDurLoss"
    /\ ret.op = "FasterSpeechDurLoss.__init__"
    /\ LET r == d_out(self)
       IN ret' = [op |-> "d_out", err |-> r.err, out |-> r.v]
    /\ UNCHANGED self

Preprocessing ==
    /\ self.class = "FasterSpeechDurLoss"
    /\ ret.op = "FasterSpeechDurLoss.__init__"
    /\ \E x \in {0 - 1, 0, 1}, c \in 0..(Width(self) - 1) :
          \E index \in ArgMaxs(OneHot(Width(self), c)) :
             LET r == preprocessing(self, x, index)
             IN /\ ret' = [op |-> "preprocessing", err |-> r.err, x |-> x,
                           logits |-> OneHot(Width(self), c), dur_pred |-> r.v]
                /\ UNCHANGED self

\* --------------------------------------------------------- MelLoss actions

\* Rows of two durations.
MelDurRows == SeqsOfLen({0, 1}, 2)
MelBatchLens == {1, 2}

\* (mel_len, dur_true, lengths of text_rep_mask) of batches of one or two
\* examples, and the batch mel_len = [10, 12] over durations that sum to
\* [10, 11].
MelInputs ==
    UNION {SeqsOfLen(0..MaxMel, b) \X SeqsOfLen(MelDurRows, b) \X SeqsOfLen(0..MaxMel, b) :
           b \in MelBatchLens}
    \cup {<<<<10, 12>>, <<<<4, 6>>, <<5, 6>>>>, <<10, 12>>>>}

NewMelLoss ==
    /\ self = NoObj
    /\ ret = NoRet
    /\ \E reduction \in Reductions :
          /\ self' = MelLoss(reduction)
          /\ ret' = [op |-> "FasterSpeechMelLoss.__init__", err |-> ""]

MelLossCall ==
    /\ self.class = "FasterSpeechMelLoss"
    /\ ret.op = "FasterSpeechMelLoss.__init__"
    /\ \E inp \in MelInputs :
          LET mask == make_mask(inp[3]).v
              r == mel_loss_function(self, inp[1], inp[2], mask)
          IN /\ ret' = [op |-> "mel_loss_function", err |-> r.err, mel_len |-> inp[1],
                        dur_true |-> inp[2], text_rep_mask |-> mask]
             /\ UNCHANGED self

\* --------------------------------------------------------- sampler actions

LengthValues == {1, 2}

\* What super().__iter__() hands a worker: some of the dataset's indices,
\* each once, in the order the distributed sampler drew them.
IndexLists ==
    {idx \in SeqsUpTo(0..(MaxData - 1), MaxData) :
        \A a, b \in 1..Len(idx) : a # b => idx[a] # idx[b]}

NewSampler ==
    /\ self = NoObj
    /\ ret = NoRet
    /\ \E lengths \in SeqsOfLen(LengthValues, MaxData), batch_size \in 1..MaxBatchSize :
          /\ self' = Sampler(lengths, batch_size)
          /\ ret' = [op |-> "SuperSmartSampler.__init__", err |-> ""]

\* DistributedSampler.set_epoch, called by the trainer before an epoch.
SetEpoch ==
    /\ self.class = "SuperSmartSampler"
    /\ ret.op \in {"SuperSmartSampler.__init__", "set_epoch"}
    /\ self.epoch < MaxEpoch
    /\ self' = [self EXCEPT !.epoch = self.epoch + 1]
    /\ ret' = [op |-> "set_epoch", err |-> ""]

SamplerIter ==
    /\ self.class = "SuperSmartSampler"
    /\ ret.op \in {"SuperSmartSampler.__init__", "set_epoch"}
    /\ \E indices \in IndexLists :
          \E b_indices \in RandPerms(NumBatches(Len(indices), self.batch_size)) :
             /\ ret' = [op |-> "__iter__", indices |-> indices, b_indices |-> b_indices,
                        out |-> sampler_iter(self, indices, b_indices)]
             /\ UNCHANGED self

\* The data loader draws its batches from the sampler's iteration.
LoaderBatches ==
    /\ self.class = "SuperSmartSampler"
    /\ ret.op = "__iter__"
    /\ \E drop_last \in BOOLEAN :
          /\ ret' = [op |-> "loader_batches", indices |-> ret.indices,
                     b_indices |-> ret.b_indices, out |-> ret.out,
                     drop_last |-> drop_last,
                     groups |-> loader_batches(ret.out, self.batch_size, drop_last)]
          /\ UNCHANGED self

\* ---------------------------------------------------------------- machine

Init ==
    /\ self = NoObj
    /\ ret = NoRet

Next ==
    \/ NewDataLayer
    \/ DataIterator
    \/ GetItem
    \/ Collate
    \/ CallMakeMask
    \/ CallInterleave
    \/ NewDurLoss
    \/ DurLossCall
    \/ DOut
    \/ Preprocessing
    \/ NewMelLoss
    \/ MelLossCall
    \/ NewSampler
    \/ SetEpoch
    \/ SamplerIter
    \/ LoaderBatches

Spec == Init /\ [][Next]_vars

\* ------------------------------------------------------------------ claims

CollateCalled == ret.op = "_collate"
CollateReturned == ret.op = "_collate" /\ ret.out.err = ""

\* The Example invariant as the specification words it: one duration per
\* token under 'pad'; n + 1 blank durations and n token durations under
\* 'full-pad'.
SpecExample(durs_type, e) ==
    /\ Len(e.text) = e.text_len
    /\ durs_type = "pad" => Len(e.dur) = e.text_len
    /\ durs_type = "full-pad" => Len(e.blank) = e.text_len + 1 /\ Len(e.dur) = e.text_len

\* The same with one duration per position of the space-padded text under
\* 'pad'.
PaddedExample(durs_type, e) ==
    /\ Len(e.text) = e.text_len
    /\ durs_type = "pad" => Len(e.dur) = e.text_len + 2
    /\ durs_type = "full-pad" => Len(e.blank) = e.text_len + 1 /\ Len(e.dur) = e.text_len

MaxTokenCount(batch) == MaxOf({batch[i].text_len : i \in 1..Len(batch)})

BatchWidth(durs_type, batch) ==
    IF durs_type = "pad" THEN MaxTokenCount(batch) + 2 ELSE 2 * MaxTokenCount(batch) + 1

\* _collate returned, and text, text_mask and dur have the shape (B, T) of
\* the scheme.
CollateShapesOk ==
    /\ ret.out.err = ""
    /\ Shape(ret.out.text) = <<Len(ret.batch), BatchWidth(self.durs_type, ret.batch)>>
    /\ Shape(ret.out.text_mask) = Shape(ret.out.text)
    /\ Shape(ret.out.dur) = Shape(ret.out.text)

\* C1 as stated: every non-empty batch of examples with one duration per
\* token ('pad') or n + 1 blank and n token durations ('full-pad') is collated
\* without a failure into text, text_mask and dur of the same shape (B, T),
\* T = max(token_count) + 2 under 'pad' and 2 * max(token_count) + 1 under
\* 'full-pad'.
C1_Original ==
    (/\ CollateCalled
     /\ self.durs_type \in {"pad", "full-pad"}
     /\ Len(ret.batch) > 0
     /\ \A i \in 1..Len(ret.batch) : SpecExample(self.durs_type, ret.batch[i]))
    => CollateShapesOk

\* C1 as amended: the same for examples whose 'pad' duration sequence has
\* token count + 2 entries, one per position of the space-padded text.
C1_CollateShapes ==
    (/\ CollateCalled
     /\ self.durs_type \in {"pad", "full-pad"}
     /\ Len(ret.batch) > 0
     /\ \A i \in 1..Len(ret.batch) : PaddedExample(self.durs_type, ret.batch[i]))
    => CollateShapesOk

\* A 'pad' batch of two examples of different token counts, each with
\* token count + 2 durations, was collated.
C1_Witness ==
    /\ CollateReturned
    /\ self.durs_type = "pad"
    /\ Len(ret.batch) = 2
    /\ ret.batch[1].text_len = 2
    /\ ret.batch[2].text_len = 1
    /\ \A i \in 1..2 : PaddedExample("pad", ret.batch[i])
    /\ Shape(ret.out.dur) = <<2, 4>>

\* The sum of an example's own durations, blank durations included.
TrueDurSum(e) == SumSeq(e.dur) + SumSeq(e.blank)

\* The sum of the first j entries of a row.
PrefixSum(row, j) == SumSeq(SubSeq(row, 1, j))

\* The text position whose frames include frame p (counted from 1).
FrameOwner(durrow, p) ==
    CHOOSE j \in 1..Len(durrow) : PrefixSum(durrow, j - 1) < p /\ p <= PrefixSum(durrow, j)

\* C2: in every batch _collate returns, text_rep and text_rep_mask have the
\* shape (B, max_i S_i), S_i the sum of example i's own durations; row i of
\* text_rep_mask is True exactly below S_i, so its sum is the sum of row i of
\* the padded dur; and row i of text_rep below S_i is each text position
\* repeated dur times, in order.
C2_TextRep ==
    CollateReturned =>
    LET out == ret.out
        B == Len(ret.batch)
        S == [i \in 1..B |-> TrueDurSum(ret.batch[i])]
        W == MaxOf({S[i] : i \in 1..B})
    IN /\ Shape(out.text_rep) = <<B, W>>
       /\ Shape(out.text_rep_mask) = <<B, W>>
       /\ \A i \in 1..B :
            /\ \A p \in 1..W : out.text_rep_mask[i][p] = (p <= S[i])
            /\ MaskSum(out.text_rep_mask[i]) = RowSum(out.dur[i])
            /\ \A p \in 1..S[i] :
                 out.text_rep[i][p] = out.text[i][FrameOwner(out.dur[i], p)]

\* A returned 'full-pad' batch whose shorter example is padded in text and
\* in text_rep.
C2_Witness ==
    /\ CollateReturned
    /\ self.durs_type = "full-pad"
    /\ Len(ret.batch) = 2
    /\ ret.batch[1].text_len = 2
    /\ ret.batch[2].text_len = 1
    /\ TrueDurSum(ret.batch[1]) = 6
    /\ TrueDurSum(ret.batch[2]) = 2
    /\ ret.out.text[2][4] = PadId

\* C3: with len(x) = len(y) + 1, interleave(x, y) has length 2 * len(y) + 1,
\* x[k] at Python index 2k and y[k] at index 2k + 1; in a 'full-pad' batch
\* the blank id and the blank durations sit at the even indices of text and
\* dur, the tokens and the token durations at the odd ones.
C3_Interleave ==
    /\ (ret.op = "interleave" /\ Len(ret.x) = Len(ret.y) + 1) =>
         /\ ret.out.err = ""
         /\ Len(ret.out.v) = 2 * Len(ret.y) + 1
         /\ \A k \in 0..Len(ret.y) : ret.out.v[2 * k + 1] = ret.x[k + 1]
         /\ \A k \in 0..(Len(ret.y) - 1) : ret.out.v[2 * k + 2] = ret.y[k + 1]
    /\ (CollateReturned /\ self.durs_type = "full-pad") =>
         \A i \in 1..Len(ret.batch) :
            LET e == ret.batch[i] IN
            /\ \A k \in 0..e.text_len :
                 /\ ret.out.text[i][2 * k + 1] = BlankId
                 /\ ret.out.dur[i][2 * k + 1] = e.blank[k + 1]
            /\ \A k \in 0..(e.text_len - 1) :
                 /\ ret.out.text[i][2 * k + 2] = e.text[k + 1]
                 /\ ret.out.dur[i][2 * k + 2] = e.dur[k + 1]

\* interleave was called on x of length 3 and y of length 2 with different
\* elements.
C3_Witness ==
    /\ ret.op = "interleave"
    /\ ret.x = <<0, 0, 0>>
    /\ ret.y = <<1, 1>>
    /\ ret.out.v = <<0, 1, 0, 1, 0>>

\* C4: for a non-empty list of non-negative lengths make_mask returns one
\* row per length, of width max(lengths), with entry (i, j) True exactly
\* when j < lengths[i].
C4_MakeMask ==
    (ret.op = "make_mask" /\ Len(ret.lengths) > 0) =>
    LET W == MaxOf({ret.lengths[i] : i \in 1..Len(ret.lengths)})
    IN /\ ret.out.err = ""
       /\ Len(ret.out.v) = Len(ret.lengths)
       /\ \A i \in 1..Len(ret.lengths) :
            /\ Len(ret.out.v[i]) = W
            /\ \A j \in 0..(W - 1) : ret.out.v[i][j + 1] = (j < ret.lengths[i])

\* make_mask([3, 5, 2]) returned the three rows of the example.
C4_Witness ==
    /\ ret.op = "make_mask"
    /\ ret.lengths = <<3, 5, 2>>
    /\ ret.out.v = <<<<TRUE, TRUE, TRUE, FALSE, FALSE>>,
                     <<TRUE, TRUE, TRUE, TRUE, TRUE>>,
                     <<TRUE, TRUE, FALSE, FALSE, FALSE>>>>

\* The position of boundary d in the table, as a Python index.
IndexOf(classes, d) == CHOOSE k \in 0..(Len(classes) - 1) : classes[k + 1] = d

IsBoundary(classes, d) == \E k \in 1..Len(classes) : classes[k] = d

\* The duration preprocessing returns for a prediction whose argmax is the
\* given class.
Decoded(o, class) == preprocessing(o, 0, class).v

\* C5: under 'xe' a duration d <= num_classes - 1 is trained on class d and
\* a prediction whose argmax is class d is decoded to d, and a larger d is
\* trained on class num_classes - 1; under 'xe-steps' a duration that is a
\* boundary of the table is trained on its index and decoded back to it.
C5_RoundTrip ==
    /\ (ret.op = "_loss_function" /\ self.method = "xe") =>
         IF ret.dur_true <= self.num_classes - 1
         THEN ret.target = ret.dur_true /\ Decoded(self, ret.target) = ret.dur_true
         ELSE ret.target = self.num_classes - 1
    /\ (/\ ret.op = "_loss_function"
        /\ self.method = "xe-steps"
        /\ IsBoundary(self.classes, ret.dur_true)) =>
         /\ ret.target = IndexOf(self.classes, ret.dur_true)
         /\ Decoded(self, ret.target) = ret.dur_true
    /\ (/\ ret.op = "preprocessing"
        /\ self.method \in {"xe", "xe-steps"}) =>
         \A c \in 0..(Len(ret.logits) - 1) :
            ret.logits = OneHot(Len(ret.logits), c) =>
               /\ ret.err = ""
               /\ ret.dur_pred = IF self.method = "xe" THEN c ELSE self.classes[c + 1]

\* The 'xe' loss of 32 classes was given the duration 31 and returned, on
\* class 31.
C5_Witness ==
    /\ ret.op = "_loss_function"
    /\ self.method = "xe"
    /\ self.num_classes = 32
    /\ ret.dur_true = 31
    /\ ret.target = 31
    /\ ret.err = ""

\* C6: the boundary table starts with 0 .. num_classes - 1, every later
\* entry is greater than the one before it, and the last entry is at least
\* max_dur when max_dur > num_classes - 1.
C6_BoundaryTable ==
    ret.op = "FasterSpeechDurLoss.__init__" =>
    LET classes == self.classes
        n == ret.num_classes
    IN /\ Len(classes) >= n
       /\ \A i \in 1..n : classes[i] = i - 1
       /\ \A i \in (n + 1)..Len(classes) : classes[i] > classes[i - 1]
       /\ ret.max_dur > n - 1 => classes[Len(classes)] >= ret.max_dur

\* The table of the defaults (32 classes, max_dur 500, coefficient 1.5) was
\* built: 0 .. 31 and thirteen boundaries up to 611.
C6_Witness ==
    /\ ret.op = "FasterSpeechDurLoss.__init__"
    /\ ret.num_classes = 32
    /\ ret.max_dur = 500
    /\ Len(self.classes) = 45
    /\ self.classes[33] = 32
    /\ self.classes[34] = 34
    /\ self.classes[45] = 611

\* C7: d_out returns the width of the method table for each of the six
\* methods.
C7_DOutWidth ==
    (/\ ret.op = "d_out"
     /\ self.method \in {"l2-log", "l2", "dmld-log", "dmld", "xe", "xe-steps"}) =>
    /\ ret.err = ""
    /\ ret.out = Width(self)

\* C8: the mel loss fails with the length error exactly when, for some
\* example, mel_len differs from the sum of its true durations or from the
\* sum of its row of text_rep_mask; the check comes before the loss and the
\* reduction, whatever the reduction mode is.
C8_MelLengthCheck ==
    ret.op = "mel_loss_function" =>
    (ret.err = LengthError <=>
       \E i \in 1..Len(ret.mel_len) :
          \/ ret.mel_len[i] # RowSum(ret.dur_true[i])
          \/ ret.mel_len[i] # MaskSum(ret.text_rep_mask[i]))

\* mel_len = [10, 12] with durations that sum to [10, 11] raised the length
\* error.
C8_Witness ==
    /\ ret.op = "mel_loss_function"
    /\ ret.mel_len = <<10, 12>>
    /\ RowSum(ret.dur_true[1]) = 10
    /\ RowSum(ret.dur_true[2]) = 11
    /\ ret.err = LengthError

KnownMethods == {"l2-log", "l2", "dmld-log", "dmld", "xe", "xe-steps"}

\* C9: an unknown scheme, method, reduction mode or sampler strategy gives
\* an error at construction or at the first use (example fetch, collate,
\* loss, d_out, preprocessing), under every placement; no such call returns
\* normally.
C9_UnknownRejected ==
    /\ (ret.op = "FasterSpeechDataLayer.__init__"
            /\ ret.sampler_type \notin {"default", "super-smart"}) => ret.err # ""
    /\ (ret.op = "__getitem__" /\ self.durs_type \notin {"pad", "full-pad"}) =>
          ret.err # ""
    /\ (ret.op = "_collate" /\ self.durs_type \notin {"pad", "full-pad"}) =>
          ret.out.err # ""
    /\ (ret.op \in {"_loss_function", "d_out", "preprocessing"}
            /\ self.method \notin KnownMethods) => ret.err # ""
    /\ (ret.op \in {"_loss_function", "mel_loss_function"}
            /\ self.reduction \notin {"all", "batch"}) => ret.err # ""

\* The chunk (a Python index into the sorted chunks) that is the j-th run of
\* the output, its size, and the run itself.
ChunkSize(n, batch_size, c) ==
    IF c = NumBatches(n, batch_size) - 1 THEN n - c * batch_size ELSE batch_size

RunStart(n, batch_size, order, j) ==
    SumSeq([k \in 1..(j - 1) |-> ChunkSize(n, batch_size, order[k])]) + 1

Run(out, n, batch_size, order, j) ==
    SubSeq(out, RunStart(n, batch_size, order, j),
           RunStart(n, batch_size, order, j) + ChunkSize(n, batch_size, order[j]) - 1)

\* C10: what __iter__ yields is a permutation of the indices handed over;
\* it is the chunks of the ascending length order, each of batch_size
\* indices but the last, which holds the rest, laid out as contiguous runs
\* in the drawn order with their inner ascending order kept.
C10_SamplerPermutation ==
    ret.op = "__iter__" =>
    LET n == Len(ret.indices)
        bs == self.batch_size
        out == ret.out
        order == ret.b_indices
        len(i) == self.lengths[i + 1]
        run(j) == Run(out, n, bs, order, j)
    IN /\ Len(out) = n
       /\ \A a \in 1..n : Cardinality({p \in 1..n : out[p] = ret.indices[a]}) = 1
       /\ Len(order) = NumBatches(n, bs)
       /\ \A j \in 1..Len(order) :
            /\ Len(run(j)) = ChunkSize(n, bs, order[j])
            /\ \A p \in 1..(Len(run(j)) - 1) : len(run(j)[p]) <= len(run(j)[p + 1])
       /\ \A j, k \in 1..Len(order) :
            order[j] < order[k] =>
               \A p \in 1..Len(run(j)), q \in 1..Len(run(k)) :
                  len(run(j)[p]) <= len(run(k)[q])

\* Three indices of different lengths were cut into a chunk of two and a
\* short chunk of one, and the short chunk was yielded first.
C10_Witness ==
    /\ ret.op = "__iter__"
    /\ self.batch_size = 2
    /\ self.lengths = <<2, 1, 2>>
    /\ ret.indices = <<0, 1, 2>>
    /\ ret.b_indices = <<1, 0>>
    /\ ret.out = <<2, 1, 0>>

\* The chunks of the ascending length order the sampler cut for the indices
\* it was handed.
SortedChunks ==
    make_batches(sort_by_length(ret.indices, self.lengths), self.batch_size)

\* C11: every group the data loader cuts from the sampler's output, in
\* consecutive groups of batch_size, is exactly one of the length-sorted
\* chunks, so that no batch mixes indices of two chunks, also when the
\* number of indices is no multiple of batch_size.
C11_BatchContiguous ==
    ret.op = "loader_batches" =>
    \A g \in 1..Len(ret.groups) :
       \E c \in 1..Len(SortedChunks) : ret.groups[g] = SortedChunks[c]

====
